---- MODULE Spec2Model ----
(***************************************************************************)
(* Model of src/graphql/mutation/createInsertMutationField.js: the insert  *)
(* mutation field generated for one table.  The field's input type is      *)
(* built once from the table's columns; every request invokes the insert   *)
(* resolver, which builds one INSERT statement, hands it to the database   *)
(* client, awaits the answer and returns {output, clientMutationId}; the   *)
(* payload's row field and edge field are then resolved from that value.   *)
(*                                                                         *)
(* JavaScript values are written as the text of their literals             *)
(* ("undefined", "null", "0", "''", "false", "'Alice'", ...), so that      *)
(* values of different JavaScript types stay comparable.                   *)
(***************************************************************************)
EXTENDS Naturals, Sequences, FiniteSets, TLC

VARIABLES table, pc, field, input, query, response, result, error,
          rowField, edgeArgs, edge, nInvocations, nCalls

vars == <<table, pc, field, input, query, response, result, error,
          rowField, edgeArgs, edge, nInvocations, nCalls>>

(* ------------------------------ bounds -------------------------------- *)

MaxCols == 2

MaxPk == 2

MaxRows == 2

MaxInvocations == 2

(* --------------------------- JavaScript values ------------------------ *)

Undefined == "undefined"

Null == "null"

FalsyValues == {Undefined, Null, "0", "''", "false"}

InputValues == FalsyValues \cup {"'Alice'", "5"}

CmidValues == {Undefined, "'m1'"}

\* JavaScript's ToBoolean on the scalars above (objects are always truthy).
Truthy(value) == value \notin FalsyValues

None == [kind |-> "none"]

\* obj[key] on a row object: a missing property reads as undefined.
GetProp(obj, key) ==
    IF key \in DOMAIN obj.cells THEN obj.cells[key] ELSE Undefined

Range(s) == {s[i] : i \in DOMAIN s}

(* --------------------------- table metadata --------------------------- *)

NonNullOf(named) == [nonNull |-> TRUE, named |-> named]

NullableOf(named) == [nonNull |-> FALSE, named |-> named]

\* The columns a table may be made of.  Two of them share an API field
\* name, and one is called like the mutation's own clientMutationId field.
Columns ==
    { [name |-> "id", fieldName |-> "id", hasDefault |-> TRUE,
       type |-> NonNullOf("Int"), description |-> "key"],
      [name |-> "full_name", fieldName |-> "fullName", hasDefault |-> FALSE,
       type |-> NonNullOf("String"), description |-> "name"],
      [name |-> "fullName", fieldName |-> "fullName", hasDefault |-> FALSE,
       type |-> NullableOf("String"), description |-> "legacy name"],
      [name |-> "client_mutation_id", fieldName |-> "clientMutationId",
       hasDefault |-> TRUE, type |-> NullableOf("String"),
       description |-> "token"] }

\* Sequences without repetition of at most n elements of S.
DistinctSeqs(S, n) ==
    UNION { { s \in [1..k -> S] : \A i, j \in 1..k : s[i] = s[j] => i = j }
            : k \in 0..n }

Tables ==
    { [identifier |-> "\"public\".\"users\"", typeName |-> "User",
       fieldName |-> "user", columns |-> cols, primaryKeys |-> pks]
      : cols \in DistinctSeqs(Columns, MaxCols),
        pks \in DistinctSeqs(Columns, MaxPk) }

ValidTables == { t \in Tables : Range(t.primaryKeys) \subseteq Range(t.columns) }

getColumns(t) == t.columns

getPrimaryKeys(t) == t.primaryKeys

getFieldName(column) == column.fieldName

\* The GraphQL type a column maps to, required or not as the column declares.
getColumnType(column) == column.type

(* ------------------------------ input type ---------------------------- *)

\* graphql's getNullableType: strips a NonNull wrapper.
getNullableType(type) == [type EXCEPT !.nonNull = FALSE]

identity(type) == type

inputClientMutationId == [type |-> NullableOf("String"), description |-> "cmid"]

\* lodash fromPairs: one property per distinct key, the last pair winning.
fromPairs(pairs) ==
    [key \in {pairs[i][1] : i \in DOMAIN pairs} |->
        LET last == CHOOSE i \in DOMAIN pairs :
                        /\ pairs[i][1] = key
                        /\ \A j \in DOMAIN pairs : pairs[j][1] = key => j <= i
        IN  pairs[last][2]]

\* Variant: the column's default is forgotten and the type is kept as declared.
columnInputFieldAsDeclared(column) ==
    [type |-> identity(getColumnType(column)),
     description |-> column.description]

columnInputField(column) ==
    [type |-> IF column.hasDefault THEN getNullableType(getColumnType(column))
              ELSE identity(getColumnType(column)),
     description |-> column.description]

createInputType(t) ==
    LET pairs == [i \in DOMAIN getColumns(t) |->
                    <<getFieldName(getColumns(t)[i]),
                      columnInputField(getColumns(t)[i])>>]
        columnFields == fromPairs(pairs)
    IN  [name |-> "Insert" \o t.typeName \o "Input",
         fields |-> [key \in DOMAIN columnFields \cup {"clientMutationId"} |->
                        IF key = "clientMutationId" THEN inputClientMutationId
                        ELSE columnFields[key]]]

createPayloadType(t) ==
    [name |-> "Insert" \o t.typeName \o "Payload",
     fields |-> {t.fieldName, t.fieldName \o "Edge", "clientMutationId"}]

(* ------------------------------ statement ----------------------------- *)

NewSQLBuilder == [text |-> <<>>, params |-> <<>>]

\* SQLBuilder.add: appends a text fragment and the values it binds.
SQLBuilderAdd(builder, fragment, values) ==
    [text |-> Append(builder.text, fragment),
     params |-> builder.params \o values]

Quote(name) == "\"" \o name \o "\""

\* Variant: the filter keeps every value that is not null or undefined.
valueEntriesNonNull(columns, in) ==
    LET entries == [i \in DOMAIN columns |->
                       <<columns[i], in[getFieldName(columns[i])]>>]
        Keep(entry) == entry[2] \notin {Undefined, Null}
    IN  SelectSeq(entries, Keep)

\* Variant: the kept pairs come out in the reverse of the table's order.
valueEntriesReversed(columns, in) ==
    LET entries == [i \in DOMAIN columns |->
                       <<columns[Len(columns) + 1 - i],
                         in[getFieldName(columns[Len(columns) + 1 - i])]>>]
        Keep(entry) == Truthy(entry[2])
    IN  SelectSeq(entries, Keep)

\* columns.map(column => [column, input[column.getFieldName()]])
\*        .filter(([, value]) => value)
valueEntries(columns, in) ==
    LET entries == [i \in DOMAIN columns |->
                       <<columns[i], in[getFieldName(columns[i])]>>]
        Keep(entry) == Truthy(entry[2])
    IN  SelectSeq(entries, Keep)

\* Variant: the values are bound in the reverse of the column list's order.
insertStatementMisbound(t, columns, in) ==
    LET entries == SelectSeq([i \in DOMAIN columns |->
                       <<columns[i], in[getFieldName(columns[i])]>>],
                       LAMBDA entry : Truthy(entry[2]))
        n == Len(entries)
        b1 == SQLBuilderAdd(NewSQLBuilder, <<"insert into", t.identifier>>, <<>>)
        b2 == SQLBuilderAdd(b1,
                  [i \in DOMAIN entries |-> Quote(entries[i][1].name)], <<>>)
        b3 == SQLBuilderAdd(b2, <<"values">>, <<>>)
        b4 == SQLBuilderAdd(b3, [i \in DOMAIN entries |-> "$"],
                            [i \in DOMAIN entries |-> entries[n + 1 - i][2]])
    IN  SQLBuilderAdd(b4, <<"returning *">>, <<>>)

insertStatement(t, columns, in) ==
    LET entries == valueEntries(columns, in)
        b1 == SQLBuilderAdd(NewSQLBuilder, <<"insert into", t.identifier>>, <<>>)
        b2 == SQLBuilderAdd(b1,
                  [i \in DOMAIN entries |-> Quote(entries[i][1].name)], <<>>)
        b3 == SQLBuilderAdd(b2, <<"values">>, <<>>)
        b4 == SQLBuilderAdd(b3, [i \in DOMAIN entries |-> "$"],
                            [i \in DOMAIN entries |-> entries[i][2]])
    IN  SQLBuilderAdd(b4, <<"returning *">>, <<>>)

\* The parts of a built statement.
StatementColumns(q) == q.text[2]

StatementPlaceholders(q) == q.text[4]

(* ------------------------------- inputs ------------------------------- *)

InputKeys(t) == {getFieldName(c) : c \in Range(t.columns)} \cup {"clientMutationId"}

Inputs(t) ==
    { in \in [InputKeys(t) -> InputValues \cup CmidValues] :
        /\ in["clientMutationId"] \in CmidValues
        /\ \A k \in InputKeys(t) \ {"clientMutationId"} : in[k] \in InputValues }

(* --------------------------- database client -------------------------- *)

\* What the database stores in each column of the rows it may return.
RowValues ==
    << [id |-> "5", full_name |-> "'Alice'", fullName |-> "'Al'",
        client_mutation_id |-> "'t1'"],
       [id |-> "6", full_name |-> "'Bob'", fullName |-> "null",
        client_mutation_id |-> "'t2'"] >>

\* `returning *` answers with rows of the table's columns.
DbRows(t) ==
    { [kind |-> "row",
       cells |-> [n \in {c.name : c \in Range(t.columns)} |-> RowValues[i][n]],
       rowTable |-> Undefined] : i \in DOMAIN RowValues }

\* The rows of one answer: any number of them, each a different row.
ClientRows(t) == DistinctSeqs(DbRows(t), MaxRows)

ClientErrors == {"unique_violation", "connection_lost"}

NullOutput == [kind |-> "null"]

\* const { rows: [row] } = ...: the first element, undefined if there is none.
firstRow(rows) == IF Len(rows) >= 1 THEN rows[1] ELSE [kind |-> "undefined"]

\* row ? (row[$$rowTable] = table, row) : null
tagOutput(t, row) ==
    IF row.kind = "row" THEN [row EXCEPT !.rowTable = t] ELSE NullOutput

(* ------------------------------- edge field --------------------------- *)

\* The ordering enum offers the table's columns; the argument is optional.
OrderByValues(t) == {Undefined} \cup {c.name : c \in Range(t.columns)}

TypeError == [kind |-> "thrown", error |-> "TypeError"]

\* Variant: the default cursor lists every column instead of the primary keys.
resolveNewEdgeAllColumns(t, output, orderBy) ==
    IF Truthy(orderBy)
    THEN IF output.kind = "null" THEN TypeError
         ELSE [kind |-> "edge",
               cursor |-> [list |-> FALSE, value |-> GetProp(output, orderBy)],
               node |-> output]
    ELSE LET columns == getColumns(t)
         IN  IF output.kind = "null" /\ columns # <<>> THEN TypeError
             ELSE [kind |-> "edge",
                   cursor |-> [list |-> TRUE,
                               values |-> [i \in DOMAIN columns |->
                                   GetProp(output, columns[i].name)]],
                   node |-> output]

\* Lines 84-103.  Reading a property of null throws a TypeError.
resolveNewEdge(t, output, orderBy) ==
    IF Truthy(orderBy)
    THEN IF output.kind = "null" THEN TypeError
         ELSE [kind |-> "edge",
               cursor |-> [list |-> FALSE, value |-> GetProp(output, orderBy)],
               node |-> output]
    ELSE LET primaryKeys == getPrimaryKeys(t)
         IN  IF output.kind = "null" /\ primaryKeys # <<>> THEN TypeError
             ELSE [kind |-> "edge",
                   cursor |-> [list |-> TRUE,
                               values |-> [i \in DOMAIN primaryKeys |->
                                   GetProp(output, primaryKeys[i].name)]],
                   node |-> output]

(* ------------------------------- actions ------------------------------ *)

Init ==
    /\ table \in ValidTables
    /\ pc = "build"
    /\ field = None
    /\ input = None
    /\ query = None
    /\ response = None
    /\ result = None
    /\ error = None
    /\ rowField = None
    /\ edgeArgs = None
    /\ edge = None
    /\ nInvocations = 0
    /\ nCalls = 0

\* createInsertMutationField(table): the field's types, built once.
createInsertMutationField ==
    /\ pc = "build"
    /\ field' = [type |-> createPayloadType(table),
                 inputType |-> createInputType(table),
                 columns |-> getColumns(table)]
    /\ pc' = "idle"
    /\ UNCHANGED <<table, input, query, response, result, error, rowField,
                   edgeArgs, edge, nInvocations, nCalls>>

\* Variant: after the first invocation the resolver answers from a memo and
\* does not call the client again.
resolveInsertMemoized(in) ==
    /\ pc \in {"idle", "returned", "failed"}
    /\ nInvocations < MaxInvocations
    /\ nInvocations' = nInvocations + 1
    /\ input' = in
    /\ query' = insertStatement(table, field.columns, in)
    /\ nCalls' = IF nInvocations = 0 THEN nCalls + 1 ELSE nCalls
    /\ response' = None
    /\ result' = None
    /\ error' = None
    /\ rowField' = None
    /\ edgeArgs' = None
    /\ edge' = None
    /\ pc' = "awaiting"
    /\ UNCHANGED <<table, field>>

\* Lines 112-131: the resolver reads the input, builds the statement and
\* hands it to client.queryAsync, all before it first suspends.  Top-level
\* mutation fields run one after the other, so an invocation starts only
\* when the previous one has settled.
resolveInsert(in) ==
    /\ pc \in {"idle", "returned", "failed"}
    /\ nInvocations < MaxInvocations
    /\ nInvocations' = nInvocations + 1
    /\ input' = in
    /\ query' = insertStatement(table, field.columns, in)
    /\ nCalls' = nCalls + 1
    /\ response' = None
    /\ result' = None
    /\ error' = None
    /\ rowField' = None
    /\ edgeArgs' = None
    /\ edge' = None
    /\ pc' = "awaiting"
    /\ UNCHANGED <<table, field>>

\* Lines 124, 133-138: the client answers with rows and the resolver resumes.
\* Its arguments and locals are gone once it has returned.
clientResolves(rows) ==
    /\ pc = "awaiting"
    /\ response' = [kind |-> "rows", rows |-> rows]
    /\ result' = [kind |-> "value",
                  output |-> tagOutput(table, firstRow(rows)),
                  clientMutationId |-> input["clientMutationId"]]
    /\ input' = None
    /\ query' = None
    /\ pc' = "returned"
    /\ UNCHANGED <<table, field, error, rowField, edgeArgs, edge,
                   nInvocations, nCalls>>

\* Variant: a rejected call is issued once more before the resolver gives up.
clientRejectsRetry(err) ==
    /\ pc = "awaiting"
    /\ response' = [kind |-> "error", error |-> err]
    /\ IF nCalls = nInvocations
       THEN /\ nCalls' = nCalls + 1
            /\ UNCHANGED <<error, input, query, pc>>
       ELSE /\ error' = [kind |-> "error", error |-> err]
            /\ input' = None
            /\ query' = None
            /\ pc' = "failed"
            /\ UNCHANGED nCalls
    /\ UNCHANGED <<table, field, result, rowField, edgeArgs, edge, nInvocations>>

\* Line 124: the awaited call rejects; nothing catches it, so the async
\* function rejects with the same error.
clientRejects(err) ==
    /\ pc = "awaiting"
    /\ response' = [kind |-> "error", error |-> err]
    /\ error' = [kind |-> "error", error |-> err]
    /\ input' = None
    /\ query' = None
    /\ pc' = "failed"
    /\ UNCHANGED <<table, field, result, rowField, edgeArgs, edge,
                   nInvocations, nCalls>>

\* Line 66: the payload's row field projects the outcome's output.
resolveRowField ==
    /\ pc = "returned"
    /\ rowField' = [kind |-> "value", value |-> result.output]
    /\ UNCHANGED <<table, pc, field, input, query, response, result, error,
                   edgeArgs, edge, nInvocations, nCalls>>

\* Line 77: the payload's edge field, resolved only when selected.
resolveEdgeField(orderBy) ==
    /\ pc = "returned"
    /\ edgeArgs' = [orderBy |-> orderBy]
    /\ edge' = resolveNewEdge(table, result.output, orderBy)
    /\ UNCHANGED <<table, pc, field, input, query, response, result, error,
                   rowField, nInvocations, nCalls>>

Next ==
    \/ createInsertMutationField
    \/ \E in \in Inputs(table) : resolveInsert(in)
    \/ \E rows \in ClientRows(table) : clientResolves(rows)
    \/ \E err \in ClientErrors : clientRejects(err)
    \/ resolveRowField
    \/ \E orderBy \in OrderByValues(table) : resolveEdgeField(orderBy)

Spec == Init /\ [][Next]_vars

(* ------------------------------ properties ---------------------------- *)

\* The positions of the table's columns whose submitted value is truthy.
PresentPositions ==
    {i \in DOMAIN table.columns : Truthy(input[table.columns[i].fieldName])}

\* C1: in every statement the resolver hands to the client, the number of
\* bound parameters is the number of columns whose input value passes the
\* filter, the quoted column list and the placeholder list are as long as
\* the parameter list, and the i-th parameter is the value the input holds
\* for the column listed i-th.
C1_ParametersPairWithColumns ==
    pc = "awaiting" =>
        /\ Len(query.params) = Cardinality(PresentPositions)
        /\ Len(StatementColumns(query)) = Len(query.params)
        /\ Len(StatementPlaceholders(query)) = Len(query.params)
        /\ \A i \in DOMAIN query.params :
               \E c \in Range(table.columns) :
                   /\ StatementColumns(query)[i] = Quote(c.name)
                   /\ query.params[i] = input[c.fieldName]

\* Two columns are listed and they are bound to different values.
C1_Witness ==
    /\ pc = "awaiting"
    /\ Len(query.params) = 2
    /\ query.params[1] # query.params[2]

\* C8: the statement lists exactly the columns whose input value is present,
\* in the table's column order (the j-th listed column is the j-th present
\* column of the table), and a column with no submitted value appears in
\* neither the column list nor the parameter list.
C8_ColumnsInTableOrder ==
    pc = "awaiting" =>
        /\ Len(StatementColumns(query)) = Cardinality(PresentPositions)
        /\ \A j \in DOMAIN StatementColumns(query) :
               \E k \in PresentPositions :
                   /\ Cardinality({m \in PresentPositions : m <= k}) = j
                   /\ StatementColumns(query)[j] = Quote(table.columns[k].name)
                   /\ query.params[j] = input[table.columns[k].fieldName]
        /\ \A c \in Range(table.columns) :
               input[c.fieldName] = Undefined =>
                   Quote(c.name) \notin Range(StatementColumns(query))

\* The table's first column, a defaulted id, is not submitted: the statement
\* lists the second column alone.
C8_Witness ==
    /\ pc = "awaiting"
    /\ Len(table.columns) = 2
    /\ table.columns[1].name = "id"
    /\ input["id"] = Undefined
    /\ StatementColumns(query) = <<Quote(table.columns[2].name)>>

\* C9: a column is listed (and its value bound) exactly when its submitted
\* value is none of undefined, null, 0, '' and false; a statement built from
\* falsy scalars is the statement built when those values are absent.
C9_FilterIsTruthiness ==
    pc = "awaiting" =>
        LET falsy == {"undefined", "null", "0", "''", "false"}
            absent == [k \in DOMAIN input |->
                          IF input[k] \in falsy THEN "undefined" ELSE input[k]]
        IN  /\ \A c \in Range(table.columns) :
                   Quote(c.name) \in Range(StatementColumns(query))
                       <=> input[c.fieldName] \notin falsy
            /\ \A i \in DOMAIN query.params : query.params[i] \notin falsy
            /\ query = insertStatement(table, field.columns, absent)

\* One column is submitted as 0 and left out while another is kept.
C9_Witness ==
    /\ pc = "awaiting"
    /\ Len(table.columns) = 2
    /\ input[table.columns[1].fieldName] = "0"
    /\ Len(query.params) = 1

\* C3: when the outcome holds a row r, the edge resolver does not throw;
\* with an ordering selector k its cursor is the single value r[k], without
\* one it is the list of r[pk] over the table's primary keys in declared
\* order and of their number; its node is r.
C3_CursorLaw ==
    (edge # None /\ result.output.kind = "row") =>
        /\ edge.kind = "edge"
        /\ edge.node = result.output
        /\ IF edgeArgs.orderBy # Undefined
           THEN edge.cursor = [list |-> FALSE,
                               value |-> result.output.cells[edgeArgs.orderBy]]
           ELSE /\ edge.cursor.list
                /\ Len(edge.cursor.values) = Len(table.primaryKeys)
                /\ \A i \in DOMAIN table.primaryKeys :
                       edge.cursor.values[i] =
                           result.output.cells[table.primaryKeys[i].name]

\* A two-column primary key declared against the column order, no selector.
C3_Witness ==
    /\ edge # None
    /\ edge.kind = "edge"
    /\ result.output.kind = "row"
    /\ edgeArgs.orderBy = Undefined
    /\ Len(table.primaryKeys) = 2
    /\ table.primaryKeys[1] = table.columns[2]
    /\ edge.cursor.values[1] # edge.cursor.values[2]

\* C2: when the client returns no row the resolver returns output = null
\* without error, and resolving the edge field on that outcome, with or
\* without orderBy, does not throw and yields an edge whose node is null.
C2_NullOutputEdgeIsSafe ==
    (pc = "returned" /\ response.kind = "rows" /\ response.rows = <<>>) =>
        /\ result.output = NullOutput
        /\ error = None
        /\ edge # None => (edge.kind = "edge" /\ edge.node = NullOutput)

\* C10: whatever number of rows the client returns, the output is the first
\* row tagged with the table, or null for no row; the payload's row field
\* and the edge's node resolve to that output.
C10_FirstRowIsTheOutput ==
    pc = "returned" =>
        /\ response.kind = "rows"
        /\ IF response.rows = <<>> THEN result.output = NullOutput
           ELSE result.output = [response.rows[1] EXCEPT !.rowTable = table]
        /\ rowField # None => rowField.value = result.output
        /\ edge # None => (edge.kind = "edge" /\ edge.node = result.output)

\* C5: when the client's call fails, the resolver fails with the client's
\* error as it is, no further call is made and no result is produced.
C5_ClientErrorPropagates ==
    pc = "failed" =>
        /\ response.kind = "error"
        /\ error = [kind |-> "error", error |-> response.error]
        /\ result = None
        /\ nCalls = nInvocations

\* The second invocation in a row fails with the client's error.
C5_Witness ==
    /\ pc = "failed"
    /\ error.error = "unique_violation"
    /\ nInvocations = 2

\* C6: the client has been called once per invocation, whatever the inputs
\* were; while the call is pending there is no result, and a result exists
\* only once the call has answered.
C6_OneCallPerInvocation ==
    /\ nCalls = nInvocations
    /\ pc = "awaiting" => (result = None /\ response = None /\ error = None)
    /\ result # None => response.kind = "rows"

\* Two invocations have completed with two calls.
C6_Witness ==
    /\ pc = "returned"
    /\ nInvocations = 2
    /\ nCalls = 2

\* C7: the result carries the input's clientMutationId unchanged, and the
\* statement is the same whatever the clientMutationId is.
C7_ClientMutationIdIsOpaque ==
    [][/\ (pc = "awaiting" /\ pc' = "returned") =>
              result'.clientMutationId = input["clientMutationId"]
       /\ pc' = "awaiting" =>
              \A v \in CmidValues :
                  insertStatement(table, field.columns,
                      [input' EXCEPT !["clientMutationId"] = v]) = query']_vars

DefiningColumn(name) ==
    LET last == CHOOSE i \in DOMAIN table.columns :
                    /\ table.columns[i].fieldName = name
                    /\ \A j \in DOMAIN table.columns :
                           table.columns[j].fieldName = name => j <= i
    IN  table.columns[last]

====
